---- MODULE Spec2Model ----
(***************************************************************************)
(* Model of the retrieval engine of the RAG application:                   *)
(* app/utils/vector_db.py (VectorDatabase) and the API handlers that use   *)
(* it.  The FAISS index, the chunk store (self.chunks), the document       *)
(* catalog (self.documents) and the three persisted artifacts are the      *)
(* state; add_document, delete_document, search, clear_database and the    *)
(* constructor (load_index) are the operations.                            *)
(***************************************************************************)
EXTENDS Integers, Sequences, FiniteSets, TLC

VARIABLES index, documents, chunks, disk, alive, last, faults, pc, loc

vars == <<index, documents, chunks, disk, alive, last, faults, pc, loc>>

(***************************************************************************)
(* Bounds of the model.                                                    *)
(***************************************************************************)
\* chunk_text's default chunk_size (1000) and overlap (200), scaled down so
\* that documents of a few characters split into several chunks.
DefaultChunkSize == 4
DefaultOverlap == 1
\* cap on the number of index rows / chunk records (guards of the adds)
MaxRows == 3
\* iterations allowed to the window loop of chunk_text
MaxIter == 8
\* number of failures (a call that raises, a save that does not complete, a
\* process that stops) in one behaviour
MaxFaults == 1
\* number of calls the threads of the concurrent specifications make in all
MaxCalls == 3

\* the file ids the callers use (uuid4 strings in api.py 85)
FileIds == {"d1", "d2"}

Max(a, b) == IF a >= b THEN a ELSE b
Min(a, b) == IF a <= b THEN a ELSE b

(***************************************************************************)
(* Text: a Python str is a sequence of one-character strings.              *)
(***************************************************************************)
IsSpace(c) == c \in {" ", "\n"}

\* Python's text[a:b]: negative bounds count from the end, both are clamped
PyIndex(n, i) == IF i < 0 THEN Max(n + i, 0) ELSE Min(i, n)

Slice(text, a, b) ==
    LET lo == PyIndex(Len(text), a)
        hi == PyIndex(Len(text), b)
    IN  IF lo >= hi THEN <<>> ELSE SubSeq(text, lo + 1, hi)

\* str.rfind(c): the last 0-based position of c, -1 when absent
RFind(text, c) ==
    LET hits == {i \in 1..Len(text) : text[i] = c}
    IN  IF hits = {} THEN -1
        ELSE (CHOOSE i \in hits : \A j \in hits : j <= i) - 1

\* str.strip(): leading and trailing whitespace removed
Strip(text) ==
    LET keep == {i \in 1..Len(text) : ~IsSpace(text[i])}
    IN  IF keep = {} THEN <<>>
        ELSE SubSeq(text,
                    CHOOSE i \in keep : \A j \in keep : i <= j,
                    CHOOSE i \in keep : \A j \in keep : j <= i)

(***************************************************************************)
(* chunk_text (vector_db.py 89-117).  One iteration of the while loop:     *)
(* the window [start, start+chunk_size), shortened to the last '.' or      *)
(* line break when end < len(text) and break_point > start + chunk_size//2.*)
(***************************************************************************)
WindowEnd(text, chunk_size, start) ==
    LET end == start + chunk_size
        chunk == Slice(text, start, end)
        break_point == Max(RFind(chunk, "."), RFind(chunk, "\n"))
    IN  IF end < Len(text) /\ break_point > start + (chunk_size \div 2)
        THEN start + break_point + 1
        ELSE end

\* a next window that starts one character after the end of this one
NextStartSkipping(end, overlap) == end + 1

\* line 112
NextStart(end, overlap) == end - overlap

RECURSIVE ChunkLoop(_, _, _, _, _, _)
ChunkLoop(text, chunk_size, overlap, start, acc, fuel) ==
    IF ~(start < Len(text)) THEN [chunks |-> acc, done |-> TRUE]
    ELSE IF fuel = 0 THEN [chunks |-> acc, done |-> FALSE]
    ELSE LET end == WindowEnd(text, chunk_size, start)
             out == Append(acc, Strip(Slice(text, start, end)))
             next == NextStart(end, overlap)
         IN  IF next >= Len(text) THEN [chunks |-> out, done |-> TRUE]
             ELSE ChunkLoop(text, chunk_size, overlap, next, out, fuel - 1)

ChunkRun(text, chunk_size, overlap) ==
    IF Len(text) <= chunk_size THEN [chunks |-> <<text>>, done |-> TRUE]
    ELSE ChunkLoop(text, chunk_size, overlap, 0, <<>>, MaxIter)

chunk_text(text, chunk_size, overlap) == ChunkRun(text, chunk_size, overlap).chunks

(***************************************************************************)
(* The embedding provider (SentenceTransformer.encode) and FAISS           *)
(* (normalize_L2, IndexFlatIP).  A vector is a pair of integers; a unit    *)
(* vector has norm UnitNorm, so that inner products of unit vectors are    *)
(* exact.  encode is deterministic and returns vectors that are not        *)
(* normalised.                                                             *)
(***************************************************************************)
Directions == << <<5, 0>>, <<4, 3>>, <<3, 4>>, <<0, 5>> >>

UnitNorm == Directions[1][1]

encode_one(text) ==
    LET u == Directions[(Len(text) % Len(Directions)) + 1]
    IN  <<2 * u[1], 2 * u[2]>>

encode(texts) == [i \in 1..Len(texts) |-> encode_one(texts[i])]

Norm(v) ==
    LET s == v[1] * v[1] + v[2] * v[2]
    IN  CHOOSE n \in 0..(v[1] + v[2]) : n * n <= s /\ (n + 1) * (n + 1) > s

normalize_one(v) ==
    IF Norm(v) = 0 THEN v
    ELSE <<(v[1] * UnitNorm) \div Norm(v), (v[2] * UnitNorm) \div Norm(v)>>

normalize_L2(vs) == [i \in 1..Len(vs) |-> normalize_one(vs[i])]

\* faiss.IndexFlatIP(dimension): an empty index; index.add appends rows
IndexFlatIP == <<>>

index_add(idx, vs) == idx \o vs

ntotal(idx) == Len(idx)

\* inner product of two vectors, in hundredths (1.0 = 100)
Score(q, v) == ((q[1] * v[1] + q[2] * v[2]) * 100) \div (UnitNorm * UnitNorm)


(***************************************************************************)
(* One VectorDatabase instance: the index, the document catalog and the    *)
(* chunk store, as a record when passed to the operators below.            *)
(***************************************************************************)
Instance(idx, docs, chs) == [index |-> idx, documents |-> docs, chunks |-> chs]

\* __init__ (vector_db.py 19-22) before load_index
EmptyInstance == Instance(IndexFlatIP, <<>>, <<>>)

Mem == Instance(index, documents, chunks)

(***************************************************************************)
(* The persisted artifacts (vector_db.py 35-37, 67-69).  A file is absent, *)
(* torn (a write that failed partway: reading it raises) or holds what was *)
(* written.  faiss.write_index stores the row count and the rows flattened *)
(* into one array of components; pickle.dump stores each dictionary as the *)
(* tuple of its values.  The field "of" is a history field that no         *)
(* operation reads: the instance the file was written from.                *)
(***************************************************************************)
Absent == [kind |-> "absent", n |-> 0, data |-> <<>>, of |-> EmptyInstance]
Torn == [kind |-> "torn", n |-> 0, data |-> <<>>, of |-> EmptyInstance]

Dimension == Len(Directions[1])

write_index(m) ==
    [kind |-> "faiss", n |-> ntotal(m.index),
     data |-> [j \in 1..(Dimension * ntotal(m.index)) |->
                  m.index[((j - 1) \div Dimension) + 1][((j - 1) % Dimension) + 1]],
     of |-> m]

read_index(f) ==
    [i \in 1..f.n |-> [c \in 1..Dimension |-> f.data[(i - 1) * Dimension + c]]]

dump_documents(m) ==
    [kind |-> "pickle", n |-> Len(m.documents),
     data |-> [i \in 1..Len(m.documents) |->
                  <<m.documents[i].file_id, m.documents[i].chunk_count>>],
     of |-> m]

load_documents(f) ==
    [i \in 1..f.n |-> [file_id |-> f.data[i][1], chunk_count |-> f.data[i][2]]]

dump_chunks(m) ==
    [kind |-> "pickle", n |-> Len(m.chunks),
     data |-> [i \in 1..Len(m.chunks) |->
                  <<m.chunks[i].text, m.chunks[i].document_id, m.chunks[i].chunk_id,
                    <<m.chunks[i].document_metadata.file_id,
                      m.chunks[i].document_metadata.chunk_count>> >>],
     of |-> m]

\* a load that numbers the chunks by their position
load_chunks_renumbered(f) ==
    [i \in 1..f.n |->
        [text |-> f.data[i][1], document_id |-> f.data[i][2], chunk_id |-> i - 1,
         document_metadata |-> [file_id |-> f.data[i][4][1],
                                chunk_count |-> f.data[i][4][2]]]]

load_chunks(f) ==
    [i \in 1..f.n |->
        [text |-> f.data[i][1], document_id |-> f.data[i][2], chunk_id |-> f.data[i][3],
         document_metadata |-> [file_id |-> f.data[i][4][1],
                                chunk_count |-> f.data[i][4][2]]]]

NoFiles == [index_file |-> Absent, metadata_file |-> Absent, chunks_file |-> Absent]

\* os.path.exists for the three artifacts (vector_db.py 39)
AllExist(d) ==
    /\ d.index_file.kind # "absent"
    /\ d.metadata_file.kind # "absent"
    /\ d.chunks_file.kind # "absent"

(***************************************************************************)
(* load_index (vector_db.py 32-62), called by the constructor on an        *)
(* instance whose documents and chunks are empty lists.  The three reads   *)
(* happen in the order index, metadata, chunks; a read that raises leaves  *)
(* what was already assigned and replaces the index by a new empty one.    *)
(***************************************************************************)
load_index(d) ==
    IF ~AllExist(d)
    THEN [m |-> EmptyInstance, ret |-> FALSE]
    ELSE IF d.index_file.kind = "torn" \/ d.metadata_file.kind = "torn"
    THEN [m |-> EmptyInstance, ret |-> FALSE]
    ELSE IF d.chunks_file.kind = "torn"
    THEN [m |-> Instance(IndexFlatIP, load_documents(d.metadata_file), <<>>),
          ret |-> FALSE]
    ELSE [m |-> Instance(read_index(d.index_file),
                         load_documents(d.metadata_file),
                         load_chunks(d.chunks_file)),
          ret |-> TRUE]

(***************************************************************************)
(* save_index (vector_db.py 64-87): three writes in the order index,       *)
(* metadata, chunks.  The outcome sv says how many writes completed        *)
(* (written), whether the write that did not complete left a torn file     *)
(* (torn), and whether the process stopped there (stop) instead of the     *)
(* write raising an exception, which save_index catches.                   *)
(***************************************************************************)
SaveOutcomes ==
    {sv \in [written : 0..3, torn : BOOLEAN, stop : BOOLEAN] :
        sv.written = 3 => ~sv.torn}

SaveOk == [written |-> 3, torn |-> FALSE, stop |-> FALSE]

WriteFile(old, new, pos, sv) ==
    IF sv.written >= pos THEN new
    ELSE IF sv.written = pos - 1 /\ sv.torn THEN Torn
    ELSE old

\* a save that writes the index file and leaves the two pickle files
save_files_index_only(m, d, sv) ==
    [index_file |-> WriteFile(d.index_file, write_index(m), 1, sv),
     metadata_file |-> d.metadata_file,
     chunks_file |-> d.chunks_file]

save_files(m, d, sv) ==
    [index_file |-> WriteFile(d.index_file, write_index(m), 1, sv),
     metadata_file |-> WriteFile(d.metadata_file, dump_documents(m), 2, sv),
     chunks_file |-> WriteFile(d.chunks_file, dump_chunks(m), 3, sv)]

save_index(m, d, sv) == [disk |-> save_files(m, d, sv), ret |-> sv.written = 3]


(***************************************************************************)
(* add_document (vector_db.py 119-182).  document_data carries the text    *)
(* and the value stored under 'metadata' ("dict", or "none" for None, on   *)
(* which document_data.get('metadata', {}).get(...) raises at line 155).   *)
(* The documents of the model have no sections and no tables, so the text  *)
(* that is chunked is text_content.  fail names the library call that      *)
(* raises, if any: "encode" (line 144) or "index_add" (line 150).          *)
(* The result says what the instance holds afterwards, the value returned  *)
(* and whether line 175 (save_index) was reached.                          *)
(***************************************************************************)
Texts == { <<"a">>, <<"a", "b", ".", "c", "d", "e">> }

DocumentData == [text_content : Texts, metadata : {"dict", "none"}]

Failures == {"none", "encode", "index_add"}

document_metadata(file_id, cs) == [file_id |-> file_id, chunk_count |-> Len(cs)]

\* lines 163-170: the records appended to self.chunks
chunk_records(m, cs, file_id) ==
    LET start_idx == Len(m.chunks)
    IN  [i \in 1..Len(cs) |->
            [text |-> cs[i], document_id |-> file_id, chunk_id |-> start_idx + (i - 1),
             document_metadata |-> document_metadata(file_id, cs)]]

add_document(m, document_data, file_id, fail) ==
    LET cs == chunk_text(document_data.text_content, DefaultChunkSize, DefaultOverlap)
        embeddings == normalize_L2(encode(cs))
        added == index_add(m.index, embeddings)
    IN  IF fail \in {"encode", "index_add"}
        THEN [m |-> m, ret |-> FALSE, save |-> FALSE, fail |-> fail]
        ELSE IF document_data.metadata = "none"
        THEN [m |-> Instance(added, m.documents, m.chunks),
              ret |-> FALSE, save |-> FALSE, fail |-> "metadata"]
        ELSE [m |-> Instance(added,
                             Append(m.documents, document_metadata(file_id, cs)),
                             m.chunks \o chunk_records(m, cs, file_id)),
              ret |-> TRUE, save |-> TRUE, fail |-> "none"]

(***************************************************************************)
(* delete_document (vector_db.py 218-262).  fail names the call that       *)
(* raises while the index is rebuilt: "encode" (line 244) or "index_add"   *)
(* (line 249, after self.index was replaced by an empty index at 248).     *)
(***************************************************************************)
\* a delete that keeps the other chunks in the opposite order
chunks_kept_reversed(m, file_id) ==
    LET Keep(c) == c.document_id # file_id
        kept == SelectSeq(m.chunks, Keep)
    IN  [i \in 1..Len(kept) |-> kept[Len(kept) + 1 - i]]

chunks_to_keep(m, file_id) ==
    LET Keep(c) == c.document_id # file_id IN SelectSeq(m.chunks, Keep)

\* a delete that leaves the catalog as it is
documents_not_filtered(m, file_id) == m.documents

documents_to_keep(m, file_id) ==
    LET Keep(d) == d.file_id # file_id IN SelectSeq(m.documents, Keep)

chunk_texts(chs) == [i \in 1..Len(chs) |-> chs[i].text]

\* a delete without the early return of lines 231-233
delete_without_not_found(m, file_id, fail) ==
    LET keep == chunks_to_keep(m, file_id)
        docs == documents_to_keep(m, file_id)
    IN  [m |-> Instance(index_add(IndexFlatIP, normalize_L2(encode(chunk_texts(keep)))),
                        docs, keep),
         ret |-> TRUE, save |-> TRUE, fail |-> "none"]

delete_document(m, file_id, fail) ==
    LET keep == chunks_to_keep(m, file_id)
        docs == documents_to_keep(m, file_id)
        rebuilt == index_add(IndexFlatIP, normalize_L2(encode(chunk_texts(keep))))
    IN  IF Len(keep) = Len(m.chunks)
        THEN [m |-> m, ret |-> FALSE, save |-> FALSE, fail |-> "not_found"]
        ELSE IF keep = <<>>
        THEN [m |-> Instance(IndexFlatIP, docs, keep),
              ret |-> TRUE, save |-> TRUE, fail |-> "none"]
        ELSE IF fail = "encode"
        THEN [m |-> Instance(m.index, docs, keep),
              ret |-> FALSE, save |-> FALSE, fail |-> fail]
        ELSE IF fail = "index_add"
        THEN [m |-> Instance(IndexFlatIP, docs, keep),
              ret |-> FALSE, save |-> FALSE, fail |-> fail]
        ELSE [m |-> Instance(rebuilt, docs, keep),
              ret |-> TRUE, save |-> TRUE, fail |-> "none"]

\* clear_database (vector_db.py 274-285)
clear_database(m) == [m |-> EmptyInstance, ret |-> TRUE, save |-> TRUE, fail |-> "none"]

\* get_document_chunks (210-212), get_documents (214-216), get_stats (264-272)
get_document_chunks(m, file_id) ==
    LET Mine(c) == c.document_id = file_id IN SelectSeq(m.chunks, Mine)

get_documents(m) == m.documents

get_stats(m) ==
    [total_documents |-> Len(m.documents), total_chunks |-> Len(m.chunks),
     index_size |-> ntotal(m.index)]

(***************************************************************************)
(* search (vector_db.py 184-208).  index.search returns the k rows with    *)
(* the highest inner product, best first (equal scores: lower row first),  *)
(* as 0-based row numbers.  A row past the end of self.chunks raises       *)
(* IndexError at line 200, and the except clause returns [].               *)
(***************************************************************************)
Better(idx, q, a, b) ==
    \/ Score(q, idx[a]) > Score(q, idx[b])
    \/ Score(q, idx[a]) = Score(q, idx[b]) /\ a < b

RECURSIVE TopRows(_, _, _, _)
TopRows(idx, q, k, taken) ==
    LET rest == (1..Len(idx)) \ taken
    IN  IF k = 0 \/ rest = {} THEN <<>>
        ELSE LET best == CHOOSE a \in rest : \A b \in rest \ {a} : Better(idx, q, a, b)
             IN  <<best - 1>> \o TopRows(idx, q, k - 1, taken \cup {best})

\* a search that returns the first k rows, whatever their scores
index_search_first_rows(idx, q, k) == [i \in 1..Min(k, Len(idx)) |-> i - 1]

index_search(idx, q, k) == TopRows(idx, q, k, {})

Hit(m, q, row) ==
    [text |-> m.chunks[row + 1].text,
     document_id |-> m.chunks[row + 1].document_id,
     chunk_id |-> m.chunks[row + 1].chunk_id,
     document_metadata |-> m.chunks[row + 1].document_metadata,
     row |-> row,
     score |-> Score(q, m.index[row + 1])]

\* the exception caught at line 206, if any
search_error(m, query, k, score_threshold, fail) ==
    LET q == normalize_one(encode_one(query))
        rows == index_search(m.index, q, k)
        Passes(row) == Score(q, m.index[row + 1]) >= score_threshold
        kept == SelectSeq(rows, Passes)
    IN  IF ntotal(m.index) = 0 THEN "none"
        ELSE IF fail = "encode" THEN "encode"
        ELSE IF \E i \in 1..Len(kept) : kept[i] >= Len(m.chunks) THEN "IndexError"
        ELSE "none"

search(m, query, k, score_threshold, fail) ==
    LET q == normalize_one(encode_one(query))
        rows == index_search(m.index, q, k)
        Passes(row) == Score(q, m.index[row + 1]) >= score_threshold
        kept == SelectSeq(rows, Passes)
    IN  IF ntotal(m.index) = 0 THEN <<>>
        ELSE IF fail = "encode" THEN <<>>
        ELSE IF \E i \in 1..Len(kept) : kept[i] >= Len(m.chunks) THEN <<>>
        ELSE [i \in 1..Len(kept) |-> Hit(m, q, kept[i])]


(***************************************************************************)
(* The sequential specification: one caller at a time.  Each action is one *)
(* whole call on the current instance, or one whole API request, which     *)
(* builds its own instance from the files (api.py 29-57).  last records    *)
(* the call just completed: its name, its file id, the value returned, the *)
(* call that raised, whether save_index returned True, the HTTP status (0  *)
(* outside the API) and the result of a search.                            *)
(***************************************************************************)
MaxK == 2

Queries == { <<"a">>, <<"a", "b", "c", "d">> }

Thresholds == {50, 90}

Completed(op, id, ret, fail, saved, http, results) ==
    [op |-> op, id |-> id, ret |-> ret, fail |-> fail, saved |-> saved,
     http |-> http, results |-> results]

Threads == {1, 2}

Idle == [t \in Threads |-> "idle"]

\* the local variables of one call in progress
NoCall ==
    [op |-> "none", id |-> "", texts |-> <<>>, emb |-> <<>>, start_idx |-> 0, i |-> 0,
     keep |-> <<>>, q |-> <<>>, k |-> 0, threshold |-> 0, rows |-> <<>>,
     ret |-> FALSE, fail |-> "none", results |-> <<>>, calls |-> 0,
     stats |-> [total_documents |-> 0, total_chunks |-> 0, index_size |-> 0]]

NoLocals == [t \in Threads |-> NoCall]

Init ==
    /\ index = IndexFlatIP
    /\ documents = <<>>
    /\ chunks = <<>>
    /\ disk = NoFiles
    /\ alive = TRUE
    /\ last = Completed("init", "", TRUE, "none", FALSE, 0, <<>>)
    /\ faults = 0
    /\ pc = Idle
    /\ loc = NoLocals

\* the failures one call uses up
Cost(fail, metadata, sv) ==
    (IF fail = "none" THEN 0 ELSE 1) + (IF metadata = "none" THEN 1 ELSE 0)
      + (IF sv = SaveOk THEN 0 ELSE 1)

\* the instance, the files and last after a mutating call with result r
\* whose save_index, if reached, had the outcome sv
Commit(op, id, r, sv, http) ==
    LET s == save_index(r.m, disk, sv)
    IN  /\ disk' = IF r.save THEN s.disk ELSE disk
        /\ IF r.save /\ sv.stop
           THEN /\ alive' = FALSE
                /\ index' = IndexFlatIP /\ documents' = <<>> /\ chunks' = <<>>
                /\ last' = Completed("stop", id, FALSE, "none", FALSE, 0, <<>>)
           ELSE /\ alive' = TRUE
                /\ index' = r.m.index
                /\ documents' = r.m.documents
                /\ chunks' = r.m.chunks
                /\ last' = Completed(op, id, r.ret, r.fail, r.save /\ s.ret, http, <<>>)
        /\ UNCHANGED <<pc, loc>>

\* a call that does not reach save_index has no save outcome to choose
Inputs(r, fail, metadata, sv) ==
    /\ faults + Cost(fail, metadata, sv) <= MaxFaults
    /\ faults' = faults + Cost(fail, metadata, sv)
    /\ r.fail # fail => fail = "none"
    /\ ~r.save => sv = SaveOk

\* the failures and save outcomes the remaining failures allow
FailuresLeft == IF faults < MaxFaults THEN Failures ELSE {"none"}

SavesLeft(fail, metadata) ==
    IF fail = "none" /\ metadata = "dict" /\ faults < MaxFaults
    THEN SaveOutcomes ELSE {SaveOk}

\* the adds stop when the index, the chunk store or the catalog is full
Fits(m, document_data) ==
    LET n == Len(chunk_text(document_data.text_content, DefaultChunkSize, DefaultOverlap))
    IN  /\ ntotal(m.index) + n <= MaxRows
        /\ Len(m.chunks) + n <= MaxRows
        /\ Len(m.documents) < MaxRows

AddDocument(document_data, file_id, fail, sv) ==
    LET r == add_document(Mem, document_data, file_id, fail)
    IN  /\ alive
        /\ Fits(Mem, document_data)
        /\ Inputs(r, fail, document_data.metadata, sv)
        /\ Commit("add", file_id, r, sv, 0)

DeleteDocument(file_id, fail, sv) ==
    LET r == delete_document(Mem, file_id, fail)
    IN  /\ alive
        /\ Inputs(r, fail, "dict", sv)
        /\ Commit("delete", file_id, r, sv, 0)

ClearDatabase(sv) ==
    /\ alive
    /\ Inputs(clear_database(Mem), "none", "dict", sv)
    /\ Commit("clear", "", clear_database(Mem), sv, 0)

Search(query, k, score_threshold, fail) ==
    /\ alive
    /\ last' = Completed("search", "", TRUE,
                         search_error(Mem, query, k, score_threshold, fail), FALSE, 0,
                         search(Mem, query, k, score_threshold, fail))
    /\ UNCHANGED <<index, documents, chunks, disk, alive, faults, pc, loc>>

\* VectorDatabase(index_path): a new instance on the same files, in the same
\* process or in a new one after the previous one stopped
Construct ==
    LET l == load_index(disk)
    IN  /\ index' = l.m.index
        /\ documents' = l.m.documents
        /\ chunks' = l.m.chunks
        /\ alive' = TRUE
        /\ last' = Completed("load", "", l.ret, "none", FALSE, 0, <<>>)
        /\ UNCHANGED <<disk, faults, pc, loc>>

\* DELETE /document/<file_id> (api.py 277-296): get_processors builds the
\* instance, then delete_document; False is answered with 404
ApiDeleteDocument(file_id, fail, sv) ==
    LET r == delete_document(load_index(disk).m, file_id, fail)
    IN  /\ alive
        /\ Inputs(r, fail, "dict", sv)
        /\ Commit("api_delete", file_id, r, sv, IF r.ret THEN 200 ELSE 404)

\* POST /upload (api.py 68-126): a new file id (uuid4, line 85), the instance
\* of get_processors, process_document (its metadata is always a dict), then
\* add_document, whose return value line 96 drops; the answer is 200 with
\* 'success': True unless a statement of the handler itself raises
ApiUpload(text, file_id, fail, sv) ==
    LET m0 == load_index(disk).m
        document_data == [text_content |-> text, metadata |-> "dict"]
        r == add_document(m0, document_data, file_id, fail)
    IN  /\ alive
        /\ \A i \in 1..Len(m0.documents) : m0.documents[i].file_id # file_id
        /\ \A i \in 1..Len(m0.chunks) : m0.chunks[i].document_id # file_id
        /\ Fits(m0, document_data)
        /\ Inputs(r, fail, "dict", sv)
        /\ Commit("api_upload", file_id, r, sv, 200)

Next ==
    \/ \E dd \in DocumentData, f \in FileIds, fail \in FailuresLeft :
          \E sv \in SavesLeft(fail, dd.metadata) : AddDocument(dd, f, fail, sv)
    \/ \E f \in FileIds, fail \in FailuresLeft :
          \E sv \in SavesLeft(fail, "dict") : DeleteDocument(f, fail, sv)
    \/ \E sv \in SavesLeft("none", "dict") : ClearDatabase(sv)
    \/ \E q \in Queries, fail \in {"none", "encode"} : Search(q, MaxK, 50, fail)
    \/ Construct
    \/ \E f \in FileIds, fail \in FailuresLeft :
          \E sv \in SavesLeft(fail, "dict") : ApiDeleteDocument(f, fail, sv)
    \/ \E text \in Texts, f \in FileIds, fail \in FailuresLeft :
          \E sv \in SavesLeft(fail, "dict") : ApiUpload(text, f, fail, sv)

Spec == Init /\ [][Next]_vars


(***************************************************************************)
(* The concurrent specifications: two threads calling the methods of one   *)
(* shared instance.  The class takes no lock, so each statement that reads *)
(* or writes self.index, self.chunks, self.documents or a file is one      *)
(* step, and the steps of two calls interleave.  No call raises here and   *)
(* every write completes.                                                  *)
(***************************************************************************)
Goto(t, label, locals) ==
    /\ pc' = [pc EXCEPT ![t] = label]
    /\ loc' = [loc EXCEPT ![t] = [locals EXCEPT !.calls = loc[t].calls]]

\* a thread starts a call; calls counts the calls it has started
Started(t) == loc[t].calls + (IF pc[t] = "idle" THEN 0 ELSE 1)

Call(t) ==
    /\ pc[t] = "idle"
    /\ Started(1) + Started(2) < MaxCalls

Shared == <<alive, last, faults>>

\* add_document, lines 123-147: the chunks and their embeddings
StartAdd(t, document_data, file_id) ==
    LET cs == chunk_text(document_data.text_content, DefaultChunkSize, DefaultOverlap)
    IN  /\ Call(t)
        /\ document_data.metadata = "dict"
        /\ Fits(Mem, document_data)
        /\ Goto(t, "a_index", [NoCall EXCEPT !.op = "add", !.id = file_id, !.texts = cs,
                                             !.emb = normalize_L2(encode(cs))])
        /\ UNCHANGED <<index, documents, chunks, disk, Shared>>

\* line 150: self.index.add(embeddings)
AddIndex(t) ==
    /\ pc[t] = "a_index"
    /\ index' = index_add(index, loc[t].emb)
    /\ Goto(t, "a_start", loc[t])
    /\ UNCHANGED <<documents, chunks, disk, Shared>>

\* line 163: start_idx = len(self.chunks)
AddStart(t) ==
    /\ pc[t] = "a_start"
    /\ Goto(t, "a_append", [loc[t] EXCEPT !.start_idx = Len(chunks), !.i = 1])
    /\ UNCHANGED <<index, documents, chunks, disk, Shared>>

\* lines 164-170: one self.chunks.append
AddAppend(t) ==
    /\ pc[t] = "a_append"
    /\ chunks' = Append(chunks,
          [text |-> loc[t].texts[loc[t].i], document_id |-> loc[t].id,
           chunk_id |-> loc[t].start_idx + (loc[t].i - 1),
           document_metadata |-> document_metadata(loc[t].id, loc[t].texts)])
    /\ Goto(t, IF loc[t].i = Len(loc[t].texts) THEN "a_docs" ELSE "a_append",
            [loc[t] EXCEPT !.i = loc[t].i + 1])
    /\ UNCHANGED <<index, documents, disk, Shared>>

\* line 172: self.documents.append(document_metadata)
AddDocs(t) ==
    /\ pc[t] = "a_docs"
    /\ documents' = Append(documents, document_metadata(loc[t].id, loc[t].texts))
    /\ Goto(t, "s_index", loc[t])
    /\ UNCHANGED <<index, chunks, disk, Shared>>

\* save_index, line 72: faiss.write_index(self.index, index_file)
SaveIndexFile(t) ==
    /\ pc[t] = "s_index"
    /\ disk' = [disk EXCEPT !.index_file = write_index(Mem)]
    /\ Goto(t, "s_metadata", loc[t])
    /\ UNCHANGED <<index, documents, chunks, Shared>>

\* save_index, lines 75-76: pickle.dump(self.documents, f)
SaveMetadataFile(t) ==
    /\ pc[t] = "s_metadata"
    /\ disk' = [disk EXCEPT !.metadata_file = dump_documents(Mem)]
    /\ Goto(t, "s_chunks", loc[t])
    /\ UNCHANGED <<index, documents, chunks, Shared>>

\* save_index, lines 79-80: pickle.dump(self.chunks, f); then the caller
\* returns True (lines 178, 258)
SaveChunksFile(t) ==
    /\ pc[t] = "s_chunks"
    /\ disk' = [disk EXCEPT !.chunks_file = dump_chunks(Mem)]
    /\ Goto(t, "done", [loc[t] EXCEPT !.ret = TRUE])
    /\ UNCHANGED <<index, documents, chunks, Shared>>

\* delete_document, lines 222-233: the scan of self.chunks
StartDelete(t, file_id) ==
    LET keep == chunks_to_keep(Mem, file_id)
    IN  /\ Call(t)
        /\ IF Len(keep) = Len(chunks)
           THEN Goto(t, "done", [NoCall EXCEPT !.op = "delete", !.id = file_id,
                                               !.fail = "not_found"])
           ELSE Goto(t, "d_docs", [NoCall EXCEPT !.op = "delete", !.id = file_id,
                                                 !.keep = keep])
        /\ UNCHANGED <<index, documents, chunks, disk, Shared>>

\* line 236: self.documents = [doc for doc in self.documents if ...]
DeleteDocs(t) ==
    /\ pc[t] = "d_docs"
    /\ documents' = documents_to_keep(Mem, loc[t].id)
    /\ Goto(t, "d_chunks", loc[t])
    /\ UNCHANGED <<index, chunks, disk, Shared>>

\* line 239: self.chunks = chunks_to_keep
DeleteChunks(t) ==
    /\ pc[t] = "d_chunks"
    /\ chunks' = loc[t].keep
    /\ Goto(t, "d_texts", loc[t])
    /\ UNCHANGED <<index, documents, disk, Shared>>

\* lines 241-245: if self.chunks: the texts of self.chunks and their embeddings
DeleteTexts(t) ==
    /\ pc[t] = "d_texts"
    /\ Goto(t, "d_new_index",
            [loc[t] EXCEPT !.texts = chunk_texts(chunks),
                           !.emb = normalize_L2(encode(chunk_texts(chunks))),
                           !.i = IF chunks # <<>> THEN 1 ELSE 0])
    /\ UNCHANGED <<index, documents, chunks, disk, Shared>>

\* line 248 or 252: self.index = faiss.IndexFlatIP(self.dimension)
DeleteNewIndex(t) ==
    /\ pc[t] = "d_new_index"
    /\ index' = IndexFlatIP
    /\ Goto(t, IF loc[t].i = 1 THEN "d_add" ELSE "s_index", loc[t])
    /\ UNCHANGED <<documents, chunks, disk, Shared>>

\* line 249: self.index.add(embeddings)
DeleteAdd(t) ==
    /\ pc[t] = "d_add"
    /\ index' = index_add(index, loc[t].emb)
    /\ Goto(t, "s_index", loc[t])
    /\ UNCHANGED <<documents, chunks, disk, Shared>>

\* search, lines 187-195: the ntotal test, the query embedding and
\* self.index.search
StartSearch(t, query, k, score_threshold) ==
    LET q == normalize_one(encode_one(query))
        rows == index_search(index, q, k)
    IN  /\ Call(t)
        /\ IF ntotal(index) = 0
           THEN Goto(t, "done", [NoCall EXCEPT !.op = "search", !.ret = TRUE])
           ELSE Goto(t, "q_join",
                     [NoCall EXCEPT !.op = "search", !.q = q, !.k = k,
                                    !.threshold = score_threshold,
                                    !.rows = [i \in 1..Len(rows) |->
                                                 [row |-> rows[i],
                                                  score |-> Score(q, index[rows[i] + 1])]]])
        /\ UNCHANGED <<index, documents, chunks, disk, Shared>>

\* lines 197-208: the rows joined with self.chunks; a row that has no chunk
\* raises IndexError and the call returns []
SearchJoin(t) ==
    LET Passes(h) == h.score >= loc[t].threshold
        kept == SelectSeq(loc[t].rows, Passes)
        missing == \E i \in 1..Len(kept) : kept[i].row >= Len(chunks)
    IN  /\ pc[t] = "q_join"
        /\ Goto(t, "done",
                [loc[t] EXCEPT !.ret = TRUE,
                               !.fail = IF missing THEN "IndexError" ELSE "none",
                               !.results =
                                   IF missing THEN <<>>
                                   ELSE [i \in 1..Len(kept) |->
                                           [text |-> chunks[kept[i].row + 1].text,
                                            document_id |-> chunks[kept[i].row + 1].document_id,
                                            chunk_id |-> chunks[kept[i].row + 1].chunk_id,
                                            document_metadata |->
                                                chunks[kept[i].row + 1].document_metadata,
                                            row |-> kept[i].row,
                                            score |-> kept[i].score]]])
        /\ UNCHANGED <<index, documents, chunks, disk, Shared>>

\* get_stats, lines 264-272
GetStats(t) ==
    /\ Call(t)
    /\ Goto(t, "done", [NoCall EXCEPT !.op = "stats", !.ret = TRUE, !.stats = get_stats(Mem)])
    /\ UNCHANGED <<index, documents, chunks, disk, Shared>>

\* the call returns to its caller
Return(t) ==
    /\ pc[t] = "done"
    /\ pc' = [pc EXCEPT ![t] = "idle"]
    /\ loc' = [loc EXCEPT ![t] = [NoCall EXCEPT !.calls = loc[t].calls + 1]]
    /\ UNCHANGED <<index, documents, chunks, disk, Shared>>

Mutate(t) ==
    \/ \E dd \in DocumentData, f \in FileIds : StartAdd(t, dd, f)
    \/ AddIndex(t) \/ AddStart(t) \/ AddAppend(t) \/ AddDocs(t)
    \/ \E f \in FileIds : StartDelete(t, f)
    \/ DeleteDocs(t) \/ DeleteChunks(t) \/ DeleteTexts(t)
    \/ DeleteNewIndex(t) \/ DeleteAdd(t)
    \/ SaveIndexFile(t) \/ SaveMetadataFile(t) \/ SaveChunksFile(t)
    \/ Return(t)

Read(t) ==
    \/ \E q \in Queries, k \in 1..MaxK, th \in Thresholds : StartSearch(t, q, k, th)
    \/ SearchJoin(t)
    \/ GetStats(t)
    \/ Return(t)

\* two threads that add and delete
NextConc == \E t \in Threads : Mutate(t)

SpecConc == Init /\ [][NextConc]_vars

\* thread 1 adds and deletes, thread 2 reads
NextRead == Mutate(1) \/ Read(2)

SpecRead == Init /\ [][NextRead]_vars

(***************************************************************************)
(* Properties of the sequential specification.                             *)
(***************************************************************************)
Unchanged == index' = index /\ documents' = documents /\ chunks' = chunks

AllQueries == Queries \X (1..MaxK) \X Thresholds

\* no chunk, no catalog record and no search result belongs to file_id
Gone(m, file_id) ==
    /\ get_document_chunks(m, file_id) = <<>>
    /\ \A i \in 1..Len(get_documents(m)) : get_documents(m)[i].file_id # file_id
    /\ \A a \in AllQueries :
          LET res == search(m, a[1], a[2], a[3], "none")
          IN  \A i \in 1..Len(res) : res[i].document_id # file_id

\* C1: after every completed add_document or delete_document the index
\* holds as many vectors as the chunk store holds records.
C1_Alignment ==
    (alive /\ last.op \in {"add", "delete"}) => ntotal(index) = Len(chunks)

\* C2: an add_document that reports failure leaves the index, the chunk
\* store and the catalog exactly as they were before the call.
C2_IngestAllOrNothing ==
    [][(last'.op = "add" /\ ~last'.ret) => Unchanged]_vars

\* C3: a delete_document whose re-embedding or index rebuild fails reports
\* failure and leaves the catalog, the chunk store and the index unchanged.
C3_DeleteAtomic ==
    [][(last'.op = "delete" /\ last'.fail \in {"encode", "index_add"})
          => (~last'.ret /\ Unchanged)]_vars

\* C4: after a successful delete_document(d) the instance holds no chunk and
\* no catalog record of d and no search returns a passage of d, and this
\* stays so on that instance until d is added again.
C4_DeleteCorrect ==
    /\ []((alive /\ last.op = "delete" /\ last.ret) => Gone(Mem, last.id))
    /\ [][\A d \in FileIds :
            (/\ alive /\ Gone(Mem, d)
             /\ last'.op \in {"add", "delete", "clear", "search"}
             /\ ~(last'.op = "add" /\ last'.id = d))
            => Gone(Instance(index', documents', chunks'), d)]_vars

C4_Witness ==
    /\ alive /\ last.op = "delete" /\ last.ret /\ faults = 0
    /\ chunks # <<>>
    /\ \E a \in AllQueries : search(Mem, a[1], a[2], a[3], "none") # <<>>

\* C5: delete_document on an id present neither in the catalog nor in the
\* chunk store returns False (404 at the API) and changes neither the
\* instance nor the files.
C5_DeleteNotFound ==
    [][/\ (last'.op = "delete" /\ Gone(Mem, last'.id))
            => (~last'.ret /\ last'.fail = "not_found" /\ Unchanged /\ disk' = disk)
       /\ (last'.op = "api_delete" /\ Gone(load_index(disk).m, last'.id))
            => (/\ ~last'.ret /\ last'.http = 404 /\ disk' = disk
                /\ Instance(index', documents', chunks') = load_index(disk).m)]_vars

C5_Witness ==
    /\ alive /\ last.op \in {"delete", "api_delete"} /\ last.fail = "not_found"
    /\ chunks # <<>> /\ documents # <<>>
    /\ Gone(Mem, last.id)

\* C8: the three artifacts that load_index loads were written from one and
\* the same state of the instance.
C8_SnapshotAtomic ==
    load_index(disk).ret =>
        /\ disk.index_file.of = disk.metadata_file.of
        /\ disk.metadata_file.of = disk.chunks_file.of

\* C9: an instance that found all three artifacts and loaded an index whose
\* row count differs from the number of loaded chunk records does not serve.
C9_LoadRejectsMismatch ==
    (/\ last.op = "load" /\ load_index(disk).ret
     /\ ntotal(read_index(disk.index_file)) # Len(load_chunks(disk.chunks_file)))
        => ~alive

\* C10: after a call whose save_index succeeded, a new instance built on the
\* same files holds the same index rows, catalog and chunk store, and every
\* search on it returns what it returns on the original.
C10_RoundTrip ==
    (alive /\ last.saved) =>
        LET l == load_index(disk)
        IN  /\ l.ret
            /\ l.m = Mem
            /\ \A a \in AllQueries :
                  search(l.m, a[1], a[2], a[3], "none")
                      = search(Mem, a[1], a[2], a[3], "none")

C10_Witness ==
    /\ alive /\ last.saved /\ last.op = "delete"
    /\ Len(chunks) >= 1
    /\ \E i \in 1..Len(chunks) : chunks[i].chunk_id # i - 1
    /\ load_index(disk).m = Mem


(***************************************************************************)
(* Properties of the concurrent specifications.                            *)
(***************************************************************************)
RowsAligned(m) ==
    /\ ntotal(m.index) = Len(m.chunks)
    /\ \A r \in 1..ntotal(m.index) :
          r <= Len(m.chunks) => m.index[r] = normalize_one(encode_one(m.chunks[r].text))

\* C6: when concurrent add_document and delete_document calls on one
\* instance have all finished, the index and the chunk store have equal
\* length and row r of the index is the vector of the chunk at position r.
C6_Serialized ==
    (pc[1] \in {"idle", "done"} /\ pc[2] \in {"idle", "done"}) => RowsAligned(Mem)

\* C7: a get_stats or search that completes while an add_document or
\* delete_document may be running has seen a complete state: as many index
\* rows as chunk records, a catalog that is empty exactly when the chunk
\* store is, and a chunk record for every row it matched.
C7_ReadsSeeCompleteState ==
    pc[2] = "done" =>
        /\ loc[2].op = "stats" =>
              /\ loc[2].stats.index_size = loc[2].stats.total_chunks
              /\ (loc[2].stats.total_documents = 0)
                    = (loc[2].stats.total_chunks = 0)
        /\ loc[2].op = "search" => loc[2].fail # "IndexError"


(***************************************************************************)
(* Persistence and the catalog.                                            *)
(***************************************************************************)
\* C11: an add_document or delete_document whose save_index failed keeps
\* the mutation in memory and does not return plain success: the value True
\* is returned only when the update was written to the files.
C11_PersistenceWarning ==
    (alive /\ last.op \in {"add", "delete"} /\ last.ret) => last.saved

\* C12: whoever is told that an ingestion succeeded (add_document returned
\* True, POST /upload answered 200 with 'success': True) finds a catalog
\* record of the document.
C12_SuccessMeansCataloged ==
    LET Cataloged(d) == \E i \in 1..Len(documents) : documents[i].file_id = d
    IN  /\ (alive /\ last.op = "add" /\ last.ret) => Cataloged(last.id)
        /\ (alive /\ last.op = "api_upload" /\ last.http = 200) => Cataloged(last.id)

\* C13: no two records of the catalog have the same file_id, whatever
\* add_document and delete_document calls were made.
C13_UniqueIds ==
    alive => \A i, j \in 1..Len(documents) :
                 documents[i].file_id = documents[j].file_id => i = j

\* C14: after every completed add_document or delete_document, and after a
\* load from the files, row r of the index is the normalized embedding of
\* the text of the chunk at position r, and there are as many rows as chunks.
C14_RowOrder ==
    (alive /\ last.op \in {"add", "delete", "load"}) => RowsAligned(Mem)

\* C15: the chunk at position i of the chunk store has chunk_id i (0-based),
\* the row of its vector in the index.
C15_ChunkIdIsPosition ==
    alive => \A i \in 1..Len(chunks) : chunks[i].chunk_id = i - 1

\* the records of seq that do not belong to file_id, in their order
OthersOf(seq, Owner(_), file_id) ==
    LET NotMine(x) == Owner(x) # file_id IN SelectSeq(seq, NotMine)

\* C16: a successful delete_document(d) removes the catalog record and the
\* chunks of d and nothing else: the records and chunks of the other
\* documents stay, unchanged and in the same order; add_document and search
\* remove no chunk and no catalog record.
C16_DeleteFrame ==
    [][LET ChunkOwner(c) == c.document_id
           DocOwner(d) == d.file_id
           before == IF last'.op \in {"api_delete", "api_upload"}
                     THEN load_index(disk).m ELSE Mem
       IN  /\ (last'.op \in {"delete", "api_delete"} /\ last'.ret) =>
                 /\ chunks' = OthersOf(before.chunks, ChunkOwner, last'.id)
                 /\ documents' = OthersOf(before.documents, DocOwner, last'.id)
                 /\ Len(chunks') < Len(before.chunks)
           /\ (last'.op \in {"add", "api_upload", "search"}) =>
                 /\ SubSeq(chunks', 1, Len(before.chunks)) = before.chunks
                 /\ SubSeq(documents', 1, Len(before.documents)) = before.documents
      ]_vars

\* a delete has left two chunks and a catalog record of other documents
C16_Witness ==
    /\ alive /\ last.op = "delete" /\ last.ret
    /\ Len(chunks) >= 2 /\ chunks[1] # chunks[2]
    /\ documents # <<>>

\* C17: after an add_document, delete_document or clear_database that
\* returned True and whose save_index returned True, each of the three files
\* was written from the state the instance is in, and reads back as the
\* index rows, the catalog and the chunk store of the instance.
C17_SnapshotEqualsMemory ==
    (alive /\ last.op \in {"add", "delete", "clear"} /\ last.ret /\ last.saved) =>
        /\ disk.index_file.of = Mem /\ read_index(disk.index_file) = index
        /\ disk.metadata_file.of = Mem /\ load_documents(disk.metadata_file) = documents
        /\ disk.chunks_file.of = Mem /\ load_chunks(disk.chunks_file) = chunks

\* a second document was added and saved over the files of the first
C17_Witness ==
    /\ alive /\ last.op = "add" /\ last.ret /\ last.saved
    /\ Len(documents) >= 2 /\ Len(chunks) >= 3

(***************************************************************************)
(* Properties of search.                                                   *)
(***************************************************************************)
\* the embedding search computes for a query
QueryVector(query) == normalize_one(encode_one(query))

\* the score of the 0-based row against the query
RowScore(m, query, row) == Score(QueryVector(query), m.index[row + 1])

\* C18: on a populated instance whose rows are aligned, search(query, k,
\* score_threshold) returns at most k results on distinct rows, best score
\* first, none below the threshold, each with the text, owner and metadata
\* of the chunk at the matched row and the score of that row; a row that
\* clears the threshold is left out only when k other rows score at least
\* as well; and search changes neither the instance nor the files.
C18_SearchCorrect ==
    /\ []((alive /\ ntotal(index) > 0 /\ RowsAligned(Mem)) =>
           \A a \in AllQueries :
              LET res == search(Mem, a[1], a[2], a[3], "none")
                  Returned(row) == \E i \in 1..Len(res) : res[i].row = row
              IN  /\ Len(res) <= a[2]
                  /\ \A i, j \in 1..Len(res) :
                        /\ i < j => res[i].score >= res[j].score
                        /\ res[i].row = res[j].row => i = j
                  /\ \A i \in 1..Len(res) :
                        /\ res[i].score >= a[3]
                        /\ res[i].row \in 0..(Len(chunks) - 1)
                        /\ res[i].score = RowScore(Mem, a[1], res[i].row)
                        /\ res[i].text = chunks[res[i].row + 1].text
                        /\ res[i].document_id = chunks[res[i].row + 1].document_id
                        /\ res[i].document_metadata
                              = chunks[res[i].row + 1].document_metadata
                  /\ \A row \in 0..(ntotal(index) - 1) :
                        (RowScore(Mem, a[1], row) >= a[3] /\ ~Returned(row)) =>
                            Cardinality({o \in 0..(ntotal(index) - 1) :
                                           /\ o # row
                                           /\ RowScore(Mem, a[1], o)
                                                >= RowScore(Mem, a[1], row)}) >= a[2])
    /\ [][last'.op = "search" => (Unchanged /\ disk' = disk)]_vars

\* a search on three aligned rows returned the two best, of different scores
C18_Witness ==
    /\ alive /\ last.op = "search" /\ last.fail = "none"
    /\ ntotal(index) = 3 /\ RowsAligned(Mem)
    /\ Len(last.results) = 2
    /\ last.results[1].score > last.results[2].score

\* C19: for one state of the instance, one query and one k, the results of
\* search with the higher of two thresholds are a prefix of the results with
\* the lower one.
C19_ThresholdMonotone ==
    alive =>
        \A q \in Queries, k \in 1..MaxK, t1 \in Thresholds, t2 \in Thresholds :
            t1 <= t2 =>
                LET low == search(Mem, q, k, t1, "none")
                    high == search(Mem, q, k, t2, "none")
                IN  /\ Len(high) <= Len(low)
                    /\ high = SubSeq(low, 1, Len(high))

\* C20: a search in which an exception was caught returns a value that
\* differs from the empty list a search returns when no row cleared the
\* threshold.
C20_SearchErrorSurfaced ==
    (alive /\ last.op = "search" /\ last.fail # "none") => last.results # <<>>


(***************************************************************************)
(* chunk_text on its own (vector_db.py 89-117): thread 1 makes one call,   *)
(* one iteration of the while loop per step.  The inputs are every text    *)
(* over Alphabet of at most MaxLen characters with every chunk_size and    *)
(* overlap of the ranges below, the rejected ones included since the code  *)
(* has no check, and texts of 2,500 characters with the default            *)
(* chunk_size and overlap.  spans is a history field: the window           *)
(* [start, end) of each chunk before strip().                              *)
(***************************************************************************)
MaxLen == 6
MaxChunkSize == 5

Alphabet == {"a", ".", "\n"}

ChunkTexts == UNION {[1..n -> Alphabet] : n \in 0..MaxLen}

ChunkSizes == (-1)..MaxChunkSize

Overlaps == 0..MaxChunkSize

\* 2,500 characters: no sentence end at all, or one every 70 characters
LongTexts ==
    {[i \in 1..2500 |-> "a"],
     [i \in 1..2500 |-> IF i % 70 = 0 THEN "." ELSE IF i % 70 = 1 THEN "\n" ELSE "a"]}

ChunkInputs ==
    (ChunkTexts \X ChunkSizes \X Overlaps) \cup (LongTexts \X {1000} \X {200})

ChunkCall(text, chunk_size, overlap) ==
    [op |-> "chunk_text", text |-> text, chunk_size |-> chunk_size,
     overlap |-> overlap, start |-> 0, chunks |-> <<>>, spans |-> <<>>,
     iter |-> 0, result |-> <<>>]

InitChunk ==
    /\ index = IndexFlatIP /\ documents = <<>> /\ chunks = <<>>
    /\ disk = NoFiles /\ alive = TRUE /\ faults = 0
    /\ last = Completed("init", "", TRUE, "none", FALSE, 0, <<>>)
    /\ pc = [Idle EXCEPT ![1] = "c_call"]
    /\ \E inp \in ChunkInputs :
          loc = [NoLocals EXCEPT ![1] = ChunkCall(inp[1], inp[2], inp[3])]

ChunkGoto(label, locals) ==
    /\ pc' = [pc EXCEPT ![1] = label]
    /\ loc' = [loc EXCEPT ![1] = locals]
    /\ UNCHANGED <<index, documents, chunks, disk, alive, last, faults>>

\* lines 91-92
ChunkShort ==
    /\ pc[1] = "c_call"
    /\ Len(loc[1].text) <= loc[1].chunk_size
    /\ ChunkGoto("done", [loc[1] EXCEPT !.result = <<loc[1].text>>,
                                        !.spans = << <<0, Len(loc[1].text)>> >>])

\* lines 94-95
ChunkEnter ==
    /\ pc[1] = "c_call"
    /\ ~(Len(loc[1].text) <= loc[1].chunk_size)
    /\ ChunkGoto("c_while", [loc[1] EXCEPT !.chunks = <<>>, !.start = 0])

\* lines 97-117: the loop test, one window, the break test; the return when
\* the loop ends
ChunkWhile ==
    LET c == loc[1]
        end == WindowEnd(c.text, c.chunk_size, c.start)
        out == Append(c.chunks, Strip(Slice(c.text, c.start, end)))
        sp == Append(c.spans, <<c.start, end>>)
        next == NextStart(end, c.overlap)
    IN  /\ pc[1] = "c_while"
        /\ c.iter < MaxIter
        /\ IF ~(c.start < Len(c.text))
           THEN ChunkGoto("done", [c EXCEPT !.result = c.chunks])
           ELSE IF next >= Len(c.text)
           THEN ChunkGoto("done", [c EXCEPT !.chunks = out, !.spans = sp,
                                            !.start = next, !.iter = c.iter + 1,
                                            !.result = out])
           ELSE ChunkGoto("c_while", [c EXCEPT !.chunks = out, !.spans = sp,
                                               !.start = next, !.iter = c.iter + 1])

NextChunk == ChunkShort \/ ChunkEnter \/ ChunkWhile

SpecChunk == InitChunk /\ [][NextChunk]_vars

(***************************************************************************)
(* Properties of chunk_text.                                               *)
(***************************************************************************)
\* the call of chunk_text has returned
Returned == pc[1] = "done" /\ loc[1].op = "chunk_text"

Trimmed(text) == Strip(text) = text

\* a non-empty end of a is a beginning of b
SharesOverlap(a, b) ==
    \E n \in 1..Min(Len(a), Len(b)) : SubSeq(a, Len(a) - n + 1, Len(a)) = SubSeq(b, 1, n)

\* C21: chunk_text on a text of 2,500 characters with chunk_size 1000 and
\* overlap 200 returns exactly 3 chunks, each trimmed, each sharing a
\* non-empty overlap with the next.
C21_ScenarioThreeChunks ==
    (/\ Returned
     /\ Len(loc[1].text) = 2500 /\ loc[1].chunk_size = 1000 /\ loc[1].overlap = 200)
        => /\ Len(loc[1].result) = 3
           /\ \A i \in 1..Len(loc[1].result) : Trimmed(loc[1].result[i])
           /\ \A i \in 1..(Len(loc[1].result) - 1) :
                 SharesOverlap(loc[1].result[i], loc[1].result[i + 1])

\* C22: every passage chunk_text returns has no leading and no trailing
\* whitespace, whatever the text and the parameters.
C22_PassagesTrimmed ==
    Returned => \A i \in 1..Len(loc[1].result) : Trimmed(loc[1].result[i])

\* the parameters the chunking contract accepts
ValidParams(c) == c.chunk_size > 0 /\ 0 <= c.overlap /\ c.overlap < c.chunk_size

\* C23: a call of chunk_text with overlap >= chunk_size or chunk_size <= 0
\* is rejected: it neither enters the window loop nor returns chunks.
C23_BadParamsRejected ==
    (loc[1].op = "chunk_text" /\ ~ValidParams(loc[1])) => pc[1] \notin {"c_while", "done"}

\* C24: with chunk_size > 0 and 0 <= overlap < chunk_size, each iteration of
\* the window loop that is followed by another one has moved start forward,
\* and start is never negative.
C24_StartAdvances ==
    [][(/\ loc[1].op = "chunk_text" /\ ValidParams(loc[1])
        /\ pc[1] = "c_while" /\ pc'[1] = "c_while")
          => (loc'[1].start > loc[1].start /\ loc'[1].start >= 0)]_vars

\* the end of the window at start by the boundary rule: shortened to just
\* after the last '.' or line break of the window when the window ends
\* before the end of the text and the break lies more than chunk_size / 2
\* characters after the start of the window
RuleEnd(text, chunk_size, start) ==
    LET end == start + chunk_size
        chunk == Slice(text, start, end)
        break_point == Max(RFind(chunk, "."), RFind(chunk, "\n"))
    IN  IF end < Len(text) /\ 2 * break_point > chunk_size
        THEN start + break_point + 1
        ELSE end

\* C25: every window chunk_text takes, the first and the later ones alike,
\* ends where the boundary rule says.
C25_BoundaryRule ==
    [][(/\ loc[1].op = "chunk_text" /\ ValidParams(loc[1])
        /\ pc[1] = "c_while" /\ Len(loc'[1].spans) > Len(loc[1].spans))
          => loc'[1].spans[Len(loc'[1].spans)]
                = <<loc[1].start, RuleEnd(loc[1].text, loc[1].chunk_size, loc[1].start)>>]_vars

\* C26: with chunk_size > 0 and 0 <= overlap < chunk_size, a call of
\* chunk_text that has returned gave what a second call with the same
\* arguments gives, and the windows of its chunks cover the text: the first
\* starts at 0, each next one starts at or before the end of the one before,
\* the last reaches the end of the text, and every position is in a window.
C26_DeterministicCoverage ==
    (Returned /\ ValidParams(loc[1])) =>
        LET c == loc[1]
            n == Len(c.spans)
        IN  /\ c.result = chunk_text(c.text, c.chunk_size, c.overlap)
            /\ n = Len(c.result) /\ n >= 1
            /\ c.spans[1][1] = 0
            /\ \A i \in 1..(n - 1) : c.spans[i + 1][1] <= c.spans[i][2]
            /\ c.spans[n][2] >= Len(c.text)
            /\ \A p \in 0..(Len(c.text) - 1) :
                  \E i \in 1..n : c.spans[i][1] <= p /\ p < c.spans[i][2]

\* a call with an overlap has returned three chunks or more, one of them
\* from a window shortened to a sentence end
C26_Witness ==
    /\ Returned /\ ValidParams(loc[1]) /\ loc[1].overlap > 0
    /\ Len(loc[1].spans) >= 3
    /\ \E i \in 1..(Len(loc[1].spans) - 1) :
          loc[1].spans[i][2] - loc[1].spans[i][1] < loc[1].chunk_size


(***************************************************************************)
(* Overlapping API requests (api.py 29-57, 89-96, 277-296).  Each request  *)
(* builds its own VectorDatabase from the files (get_processors), changes  *)
(* that instance in its own memory, and save_index writes the three files  *)
(* one after the other; nothing orders the requests of a threaded or       *)
(* multi-process server.  Each thread makes one request.  The files start  *)
(* empty or hold one document "d0" uploaded earlier; an upload gets an id  *)
(* no other document has.  No call raises and every write completes.       *)
(***************************************************************************)
ApiCall(op, id, text, inst, ret, http) ==
    [op |-> op, id |-> id, text |-> text, inst |-> inst, ret |-> ret, http |-> http]

\* the files after one completed upload of text under the id "d0"
FilesWith(text) ==
    save_files(add_document(EmptyInstance, [text_content |-> text, metadata |-> "dict"],
                            "d0", "none").m,
               NoFiles, SaveOk)

InitApi ==
    /\ index = IndexFlatIP /\ documents = <<>> /\ chunks = <<>>
    /\ alive = TRUE /\ faults = 0
    /\ last = Completed("init", "", TRUE, "none", FALSE, 0, <<>>)
    /\ pc = Idle
    /\ loc = NoLocals
    /\ disk \in {NoFiles} \cup {FilesWith(text) : text \in Texts}

ApiGoto(t, label, locals) ==
    /\ pc' = [pc EXCEPT ![t] = label]
    /\ loc' = [loc EXCEPT ![t] = locals]
    /\ UNCHANGED <<index, documents, chunks, alive, last, faults>>

\* POST /upload up to the first write of save_index: the file id (line 85),
\* the instance (get_processors) and add_document on it up to line 172
UploadRequest(t, text, file_id) ==
    LET m0 == load_index(disk).m
        document_data == [text_content |-> text, metadata |-> "dict"]
        r == add_document(m0, document_data, file_id, "none")
    IN  /\ pc[t] = "idle"
        /\ \A o \in Threads \ {t} : loc[o].id # file_id
        /\ \A i \in 1..Len(m0.documents) : m0.documents[i].file_id # file_id
        /\ \A i \in 1..Len(m0.chunks) : m0.chunks[i].document_id # file_id
        /\ Fits(m0, document_data)
        /\ ApiGoto(t, "r_index", ApiCall("upload", file_id, text, r.m, r.ret, 200))
        /\ UNCHANGED disk

\* DELETE /document/<file_id> up to the first write of save_index, or to
\* the 404 answer
DeleteRequest(t, file_id) ==
    LET r == delete_document(load_index(disk).m, file_id, "none")
    IN  /\ pc[t] = "idle"
        /\ ApiGoto(t, IF r.save THEN "r_index" ELSE "done",
                   ApiCall("delete", file_id, <<>>, r.m, r.ret, IF r.ret THEN 200 ELSE 404))
        /\ UNCHANGED disk

\* save_index, lines 72, 75-76 and 79-80, from the request's own instance
RequestSavesIndex(t) ==
    /\ pc[t] = "r_index"
    /\ disk' = [disk EXCEPT !.index_file = write_index(loc[t].inst)]
    /\ ApiGoto(t, "r_metadata", loc[t])

RequestSavesMetadata(t) ==
    /\ pc[t] = "r_metadata"
    /\ disk' = [disk EXCEPT !.metadata_file = dump_documents(loc[t].inst)]
    /\ ApiGoto(t, "r_chunks", loc[t])

RequestSavesChunks(t) ==
    /\ pc[t] = "r_chunks"
    /\ disk' = [disk EXCEPT !.chunks_file = dump_chunks(loc[t].inst)]
    /\ ApiGoto(t, "done", loc[t])

NextApi ==
    \E t \in Threads :
        \/ \E text \in Texts, f \in FileIds : UploadRequest(t, text, f)
        \/ \E f \in FileIds \cup {"d0"} : DeleteRequest(t, f)
        \/ RequestSavesIndex(t)
        \/ RequestSavesMetadata(t)
        \/ RequestSavesChunks(t)

SpecApi == InitApi /\ [][NextApi]_vars

\* C27: when the two requests have both been answered with success (two
\* uploads, or an upload and a delete of another document), the files load
\* as one state that holds every uploaded document with all its chunks and
\* index rows and nothing of the deleted document.
C27_NoLostUpdate ==
    (/\ pc[1] = "done" /\ pc[2] = "done"
     /\ loc[1].http = 200 /\ loc[2].http = 200
     /\ "upload" \in {loc[1].op, loc[2].op}
     /\ loc[1].id # loc[2].id) =>
        LET l == load_index(disk)
        IN  /\ l.ret
            /\ disk.index_file.of = disk.metadata_file.of
            /\ disk.metadata_file.of = disk.chunks_file.of
            /\ ntotal(l.m.index) = Len(l.m.chunks)
            /\ \A t \in Threads :
                  IF loc[t].op = "upload"
                  THEN /\ \E i \in 1..Len(l.m.documents) :
                             l.m.documents[i].file_id = loc[t].id
                       /\ Len(get_document_chunks(l.m, loc[t].id))
                             = Len(chunk_text(loc[t].text, DefaultChunkSize, DefaultOverlap))
                  ELSE Gone(l.m, loc[t].id)


(***************************************************************************)
(* Ownership and loading.                                                  *)
(***************************************************************************)
\* C28: after every completed add_document or delete_document, for every
\* document id the number of chunks with that document_id is the
\* chunk_count of its catalog record and at least 1, and is 0 when the id
\* has no catalog record.
C28_OwnershipCounts ==
    (alive /\ last.op \in {"add", "delete"}) =>
        \A d \in FileIds :
            LET n == Len(get_document_chunks(Mem, d))
                records == {i \in 1..Len(documents) : documents[i].file_id = d}
            IN  /\ \A i \in records : documents[i].chunk_count = n /\ n >= 1
                /\ records = {} => n = 0

\* C29: after any sequence of add_document and delete_document calls the
\* chunk_id values of the chunk store are pairwise distinct, also when a
\* document that is not the latest one was deleted before an add.
C29_DistinctChunkIds ==
    (alive /\ last.op \in {"add", "delete"}) =>
        \A i, j \in 1..Len(chunks) :
            chunks[i].chunk_id = chunks[j].chunk_id => i = j

\* C30: after load_index returns, either it reports a load and the index,
\* the catalog and the chunk store hold what the three files contain, or
\* it reports none and all three are empty.
C30_LoadConsistent ==
    (alive /\ last.op = "load") =>
        IF last.ret
        THEN /\ index = read_index(disk.index_file)
             /\ documents = load_documents(disk.metadata_file)
             /\ chunks = load_chunks(disk.chunks_file)
        ELSE Mem = EmptyInstance

====
